---- MODULE Spec2Model ----
(***************************************************************************)
(* Model of mne_frequency_tagging: the pure routines snr_spectrum and      *)
(* snr_at_frequency (frequency_tagging.py) and the FtSpectra container     *)
(* (FtSpectra.py).                                                         *)
(*                                                                         *)
(* A numpy array is a record [shape, data]: its shape tuple and its        *)
(* elements in C (row-major) order, which is the order reshape keeps.      *)
(* A float is a pair <<num, den>>: a normalised fraction when den > 0,     *)
(* NaN == <<0,0>>, +inf == <<1,0>>, -inf == <<-1,0>>.  Arithmetic is       *)
(* exact: the rounding and the overflow of IEEE doubles are not modelled.  *)
(* Frequencies are integers in units of 0.1 Hz.                            *)
(***************************************************************************)
EXTENDS Integers, Sequences, FiniteSets, TLC

VARIABLES
    fn,         \* the routine or method that is called
    pc,         \* "ready" before the call, "done" after it
    psd,        \* snr_spectrum: the caller's PSD array
    noise_n_neighborfreqs,
    noise_skip_neighborfreqs,
    snrs,       \* snr_at_frequency: the SNR array
    freqs,      \* snr_at_frequency: the frequency axis
    stim_freq,  \* snr_at_frequency: the target frequency
    ret,        \* outcome of the last call: what it returned or raised
    obj         \* the FtSpectra instance, once constructed

vars == <<fn, pc, psd, noise_n_neighborfreqs, noise_skip_neighborfreqs,
          snrs, freqs, stim_freq, ret, obj>>

----------------------------------------------------------------------------
(* Bounds of the model *)

\* elements of a rank-2 or rank-3 PSD array
MaxElems == 6
\* elements of an array of another rank (0, 1, 4)
MaxElemsOther == 4
\* largest noise_n_neighborfreqs
MaxNeighbor == 2
\* largest noise_skip_neighborfreqs
MaxSkip == 1
\* frequency axes of any order, with repeats, have at most MaxLen bins
MaxLen == 2
\* frequencies are 1 .. MaxFreq Hz; increasing axes have up to MaxFreq bins
MaxFreq == 5
\* elements of the SNR array given to snr_at_frequency
MaxSelElems == 4
\* elements of the PSD array given to FtSpectra
MaxFtElems == 3
\* add_snr_spectrum is tried with parameters -MaxNegParam .. MaxFtParam
MaxNegParam == 2
MaxFtParam == 1

----------------------------------------------------------------------------
(* Floats *)

NaN == <<0, 0>>
PosInf == <<1, 0>>
NegInf == <<-1, 0>>
\* the content of np.empty: whatever the memory held
Uninit == <<0, -1>>

Abs(x) == IF x < 0 THEN -x ELSE x

RECURSIVE GCD(_, _)
GCD(a, b) == IF b = 0 THEN a ELSE GCD(b, a % b)

\* the float num/den, den # 0
Norm(num, den) ==
    LET g == GCD(Abs(num), Abs(den))
        sg == IF den < 0 THEN -1 ELSE 1
    IN  <<sg * (num \div g), sg * (den \div g)>>

Fin(k) == <<k, 1>>

IsNaN(x) == x = NaN
IsFinite(x) == x[2] > 0

\* float addition
Add(x, y) ==
    IF IsNaN(x) \/ IsNaN(y) THEN NaN
    ELSE IF ~IsFinite(x) /\ ~IsFinite(y) THEN (IF x = y THEN x ELSE NaN)
    ELSE IF ~IsFinite(x) THEN x
    ELSE IF ~IsFinite(y) THEN y
    ELSE Norm(x[1] * y[2] + y[1] * x[2], x[2] * y[2])

\* float division (numpy: x/0 is inf or nan with a warning, no error)
Div(x, y) ==
    IF IsNaN(x) \/ IsNaN(y) THEN NaN
    ELSE IF ~IsFinite(y) THEN (IF IsFinite(x) THEN Fin(0) ELSE NaN)
    ELSE IF ~IsFinite(x) THEN (IF y[1] >= 0 THEN x ELSE <<-x[1], 0>>)
    ELSE IF y[1] = 0
         THEN (IF x[1] = 0 THEN NaN ELSE IF x[1] > 0 THEN PosInf ELSE NegInf)
    ELSE Norm(x[1] * y[2], x[2] * y[1])

RECURSIVE Sum(_)
Sum(vals) == IF vals = <<>> THEN Fin(0) ELSE Add(Sum(Tail(vals)), Head(vals))

\* mean with the slip of dividing by the bins of one side only
mean_per_side(vals) == Div(Sum(vals), Fin(Len(vals) \div 2))

\* ndarray.mean over the gathered noise bins: the sum over the count;
\* of no bins it is 0/0, NaN, with a warning
mean(vals) == Div(Sum(vals), Fin(Len(vals)))

----------------------------------------------------------------------------
(* Arrays *)

RECURSIVE Prod(_)
Prod(sh) == IF sh = <<>> THEN 1 ELSE Head(sh) * Prod(Tail(sh))

Size(sh) == Prod(sh)
Rank(a) == Len(a.shape)

\* the value of a call that returned nothing, or raised
NoValue == [shape |-> <<>>, data |-> <<>>]

Return(v) == [kind |-> "return", exc |-> "", value |-> v]
Raise(e) == [kind |-> "raise", exc |-> e, value |-> NoValue]
NoReturn == [kind |-> "none", exc |-> "", value |-> NoValue]

np_empty(sh) == [shape |-> sh, data |-> [p \in 1..Size(sh) |-> Uninit]]

\* ndarray.reshape: a new array over the same elements in the same order
reshape(a, sh) == [shape |-> sh, data |-> a.data]

\* product of the axes after the third: the stride of axis 2
Inner(sh) == Prod(SubSeq(sh, 4, Len(sh)))

\* index along axis 2 of the element at flat position p (1-based)
Axis2(sh, p) == ((p - 1) \div Inner(sh)) % sh[3]

\* snr[:, :, i] = vals: the elements whose axis-2 index is i are replaced
set_axis2(a, i, vals) ==
    [shape |-> a.shape,
     data  |-> [p \in 1..Size(a.shape) |->
                   IF Axis2(a.shape, p) = i THEN vals[p] ELSE a.data[p]]]

\* Python's index j on an axis of length len: negative counts from the end
InBounds(j, len) == -len <= j /\ j < len
WrapIndex(j, len) == IF j < 0 THEN j + len ELSE j

\* a[:, :, j] at the trial / channel position of p: the element of a that
\* differs from p in its axis-2 index only
at_axis2(a, p, j) ==
    a.data[p + (WrapIndex(j, a.shape[3]) - Axis2(a.shape, p)) * Inner(a.shape)]

----------------------------------------------------------------------------
(* snr_spectrum *)

\* to_3d without the preparation of 2-d data
to_3d_unprepared(a) == a

\* the 3-d view of the PSD (2-d: one trial)
to_3d(a) ==
    IF Len(a.shape) = 2 THEN reshape(a, <<1, a.shape[1], a.shape[2]>>) ELSE a

\* from_3d without the reshape back: the added trial axis stays
from_3d_padded(snr, is_2d) == snr

\* back to the dimensions of the input
from_3d(snr, is_2d) ==
    IF is_2d THEN reshape(snr, <<snr.shape[2], snr.shape[3]>>) ELSE snr

\* the caller's array after the call: reshape rebinds the local name only
psd_after_call(a) == a

\* is_edge with the slip of letting the bin at stop_freq_i through
is_edge_late_stop(i_freq, F, n, s) ==
    LET start_freq_i == n + s
        stop_freq_i == F - n - s
    IN  ~(stop_freq_i >= i_freq /\ i_freq >= start_freq_i)

\* a bin on the edge, without noise neighbours
is_edge(i_freq, F, n, s) ==
    LET start_freq_i == n + s
        stop_freq_i == F - n - s
    IN  ~(stop_freq_i > i_freq /\ i_freq >= start_freq_i)

\* the noise bins of i_freq, in the order they are appended
RECURSIVE noise_loop(_, _, _, _)
noise_loop(i_freq, n, s, i) ==
    IF i >= n THEN <<>>
    ELSE <<i_freq + s + i + 1, i_freq - s - i - 1>> \o noise_loop(i_freq, n, s, i + 1)

\* i_noise with the slip of leaving out the "+ 1" / "- 1": every noise bin
\* is one bin nearer to i_freq
i_noise_nearer(i_freq, n, s) ==
    LET l == noise_loop(i_freq, n, s, 0)
    IN  [k \in 1..Len(l) |-> IF k % 2 = 1 THEN l[k] - 1 ELSE l[k] + 1]

i_noise(i_freq, n, s) == noise_loop(i_freq, n, s, 0)

\* one pass of the SNR loop and the passes after it
RECURSIVE snr_loop(_, _, _, _, _)
snr_loop(a, n, s, i_freq, snr) ==
    IF i_freq >= a.shape[3] THEN Return(snr)
    ELSE IF is_edge(i_freq, a.shape[3], n, s)
    THEN snr_loop(a, n, s, i_freq + 1,
                  set_axis2(snr, i_freq, [p \in 1..Size(a.shape) |-> NaN]))
    ELSE LET idx == i_noise(i_freq, n, s)
         IN  IF \E k \in 1..Len(idx) : ~InBounds(idx[k], a.shape[3])
             THEN Raise("IndexError")
             ELSE LET noise(p) == mean([k \in 1..Len(idx) |-> at_axis2(a, p, idx[k])])
                      ratio == [p \in 1..Size(a.shape) |->
                                   IF Axis2(a.shape, p) = i_freq
                                   THEN Div(a.data[p], noise(p))
                                   ELSE Uninit]
                  IN  snr_loop(a, n, s, i_freq + 1, set_axis2(snr, i_freq, ratio))

snr_spectrum(a, n, s) ==
    LET is_2d == Len(a.shape) = 2
        a3 == to_3d(a)
    IN  IF Len(a3.shape) < 3 THEN Raise("IndexError")
        ELSE LET out == snr_loop(a3, n, s, 0, np_empty(a3.shape))
             IN  IF out.kind = "raise" THEN out
                 ELSE Return(from_3d(out.value, is_2d))

----------------------------------------------------------------------------
(* Inputs *)

\* the shapes of rank r of arrays with 1 to m elements
Shapes(r, m) == {sh \in [1..r -> 1..m] : Prod(sh) <= m}

\* the shapes of rank r whose last axis, the frequency axis, is empty
ShapesNoBins(r, m) == {Append(sh, 0) : sh \in Shapes(r - 1, m)}

\* the arrays of the shapes in shs with elements in vals
Arrays(shs, vals) ==
    UNION {{[shape |-> sh, data |-> d] : d \in [1..Size(sh) -> vals]} : sh \in shs}

PsdValues == {Fin(0), Fin(1), Fin(2)}

\* PSD arrays of rank 2 and 3, and of the ranks 0, 1 and 4
PsdArrays ==
    Arrays(Shapes(2, MaxElems) \cup Shapes(3, MaxElems)
           \cup ShapesNoBins(2, MaxElems) \cup ShapesNoBins(3, MaxElems)
           \cup Shapes(0, MaxElemsOther) \cup Shapes(1, MaxElemsOther)
           \cup Shapes(4, MaxElemsOther),
           PsdValues)

\* no FtSpectra instance: none was constructed, or __init__ raised
NoObject ==
    [constructed |-> FALSE, frequency_bins |-> <<>>, psd |-> NoValue,
     ch_names |-> <<>>, stim_freq |-> 0, snr_is_None |-> TRUE, snr |-> NoValue]

----------------------------------------------------------------------------
(* Calls of snr_spectrum *)

InitSnr ==
    /\ fn = "snr_spectrum"
    /\ pc = "ready"
    /\ psd \in PsdArrays
    /\ noise_n_neighborfreqs \in 0..MaxNeighbor
    /\ noise_skip_neighborfreqs \in 0..MaxSkip
    /\ snrs = NoValue
    /\ freqs = <<>>
    /\ stim_freq = 0
    /\ ret = NoReturn
    /\ obj = NoObject

CallSnrSpectrum ==
    /\ fn = "snr_spectrum"
    /\ pc = "ready"
    /\ ret' = snr_spectrum(psd, noise_n_neighborfreqs, noise_skip_neighborfreqs)
    /\ psd' = psd_after_call(psd)
    /\ pc' = "done"
    /\ UNCHANGED <<fn, noise_n_neighborfreqs, noise_skip_neighborfreqs,
                   snrs, freqs, stim_freq, obj>>

SpecSnr == InitSnr /\ [][CallSnrSpectrum]_vars

----------------------------------------------------------------------------
(* snr_at_frequency *)

\* abs(np.subtract(freqs, stim_freq))
tmp_distlist(fs, t) == [k \in 1..Len(fs) |-> Abs(fs[k] - t)]

\* Python's min over a non-empty sequence
RECURSIVE min(_)
min(seq) ==
    IF Len(seq) = 1 THEN seq[1]
    ELSE LET m == min(Tail(seq)) IN IF m < Head(seq) THEN m ELSE Head(seq)

\* np.where(seq == v)[0]: the 0-based positions of v, in increasing order
RECURSIVE where_eq(_, _, _)
where_eq(seq, v, k) ==
    IF k > Len(seq) THEN <<>>
    ELSE (IF seq[k] = v THEN <<k - 1>> ELSE <<>>) \o where_eq(seq, v, k + 1)

\* i_signal with the slip of taking the last of the closest positions
i_signal_last(fs, t) ==
    LET dist == tmp_distlist(fs, t)
        hits == where_eq(dist, min(dist), 1)
    IN  hits[Len(hits)]

\* the position closest to the wanted frequency
i_signal(fs, t) ==
    LET dist == tmp_distlist(fs, t) IN where_eq(dist, min(dist), 1)[1]

\* a[..., i]: index i on the last axis, every other axis kept
take_last(a, i) ==
    LET F == a.shape[Len(a.shape)]
        front == SubSeq(a.shape, 1, Len(a.shape) - 1)
    IN  IF ~InBounds(i, F) THEN Raise("IndexError")
        ELSE Return([shape |-> front,
                     data  |-> [q \in 1..Size(front) |->
                                   a.data[(q - 1) * F + WrapIndex(i, F) + 1]]])

\* select that indexes a 1-d array like the others
select_indexing_1d(a, i) ==
    LET dimensionality == Len(a.shape)
    IN  IF dimensionality \in {1, 2, 3} THEN take_last(a, i)
        ELSE Raise("ValueError")

\* the dispatch on the dimensionality of the SNR array
select(a, i) ==
    LET dimensionality == Len(a.shape)
    IN  IF dimensionality = 3 THEN take_last(a, i)
        ELSE IF dimensionality = 2 THEN take_last(a, i)
        ELSE IF dimensionality = 1 THEN Return(a)
        ELSE Raise("ValueError")

\* verbose is False: nothing is printed
snr_at_frequency(a, fs, t) ==
    IF Len(fs) = 0 THEN Raise("ValueError")
    ELSE select(a, i_signal(fs, t))

----------------------------------------------------------------------------
(* Calls of snr_at_frequency *)

\* SNR arrays of rank 0 to 4 whose elements all differ
SelArrays ==
    {[shape |-> sh, data |-> [p \in 1..Size(sh) |-> Fin(p)]] :
     sh \in UNION {Shapes(r, MaxSelElems) : r \in 0..4}
             \cup UNION {ShapesNoBins(r, MaxSelElems) : r \in 1..3}}

Hz(k) == 10 * k

RECURSIVE IsIncreasing(_)
IsIncreasing(seq) ==
    Len(seq) <= 1 \/ (seq[1] < seq[2] /\ IsIncreasing(Tail(seq)))

\* the strictly increasing axes over 1..MaxFreq Hz, and every axis of at
\* most MaxLen bins (unordered, with repeats)
FreqAxes ==
    {fs \in UNION {[1..l -> {Hz(k) : k \in 1..MaxFreq}] : l \in 0..MaxFreq} :
        IsIncreasing(fs) \/ Len(fs) <= MaxLen}

\* targets on the bins, half-way between them, off both ends, and 3.1 Hz
Targets == {5 * k : k \in 0..(2 * MaxFreq + 2)} \cup {31}

InitSel ==
    /\ fn = "snr_at_frequency"
    /\ pc = "ready"
    /\ psd = NoValue
    /\ noise_n_neighborfreqs = 0
    /\ noise_skip_neighborfreqs = 0
    /\ snrs \in SelArrays
    /\ freqs \in FreqAxes
    /\ stim_freq \in Targets
    /\ ret = NoReturn
    /\ obj = NoObject

CallSnrAtFrequency ==
    /\ fn = "snr_at_frequency"
    /\ pc = "ready"
    /\ ret' = snr_at_frequency(snrs, freqs, stim_freq)
    /\ pc' = "done"
    /\ UNCHANGED <<fn, psd, noise_n_neighborfreqs, noise_skip_neighborfreqs,
                   snrs, freqs, stim_freq, obj>>

SpecSel == InitSel /\ [][CallSnrAtFrequency]_vars

\* a call of either routine
Init == InitSnr \/ InitSel
Next == CallSnrSpectrum \/ CallSnrAtFrequency
Spec == Init /\ [][Next]_vars

----------------------------------------------------------------------------
(* FtSpectra *)

\* integrity_check without the check of the channels
integrity_check_bins_only(dim, frequency_bins, ch_names) ==
    IF Len(dim) < 1 THEN "IndexError"
    ELSE IF dim[Len(dim)] # Len(frequency_bins) THEN "Warning"
    ELSE ""

\* the integrity check of __init__ on dim == psd.shape: the exception it
\* raises, "" when it passes (dim[-1] and dim[-2] raise IndexError on a
\* shape that is too short)
integrity_check(dim, frequency_bins, ch_names) ==
    IF Len(dim) < 1 THEN "IndexError"
    ELSE IF dim[Len(dim)] # Len(frequency_bins) THEN "Warning"
    ELSE IF Len(dim) < 2 THEN "IndexError"
    ELSE IF dim[Len(dim) - 1] # Len(ch_names) THEN "Warning"
    ELSE ""

\* the attributes __init__ sets (montage: the default one)
new_FtSpectra(frequency_bins, a, ch_names, sf) ==
    [constructed |-> TRUE, frequency_bins |-> frequency_bins, psd |-> a,
     ch_names |-> ch_names, stim_freq |-> sf, snr_is_None |-> TRUE,
     snr |-> NoValue]

\* add_snr_spectrum: the outcome of the method; only a ValueError of
\* snr_spectrum is turned into a Warning
add_snr_spectrum(self, n, s) ==
    LET r == snr_spectrum(self.psd, n, s)
    IN  IF r.kind = "raise"
        THEN (IF r.exc = "ValueError" THEN Raise("Warning") ELSE r)
        ELSE Return(NoValue)

\* the instance after add_snr_spectrum: snr is assigned when snr_spectrum
\* returned, and is left alone when it raised
after_add_snr_spectrum(self, n, s) ==
    LET r == snr_spectrum(self.psd, n, s)
    IN  IF r.kind = "raise" THEN self
        ELSE [self EXCEPT !.snr_is_None = FALSE, !.snr = r.value]

\* what the plotting library may do with the arrays it is handed
ExternalOutcomes == {Return(NoValue), Raise("Exception")}

\* plot_snr_spectrum: the outcomes of the method
plot_snr_spectrum(self) ==
    IF ~self.snr_is_None THEN ExternalOutcomes ELSE {Raise("Warning")}

\* plot_snr_topography: snr_at_frequency on self.snr, then the plot
plot_snr_topography(self) ==
    IF Len(self.frequency_bins) = 0 THEN {Raise("ValueError")}
    ELSE IF self.snr_is_None THEN {Raise("AttributeError")}
    ELSE LET r == snr_at_frequency(self.snr, self.frequency_bins, self.stim_freq)
         IN  IF r.kind = "raise" THEN {r} ELSE ExternalOutcomes

\* PSD arrays of rank 0 to 4
FtValues == {Fin(1), Fin(2)}
FtArrays ==
    Arrays(UNION {Shapes(r, MaxFtElems) : r \in 0..4}
           \cup ShapesNoBins(2, MaxFtElems) \cup ShapesNoBins(3, MaxFtElems),
           FtValues)

\* the frequency axis 1, 2, ..., l Hz
StdAxis(l) == [k \in 1..l |-> Hz(k)]
\* l channel names
ChNames(l) == [k \in 1..l |-> k]

FtParams == (0 - MaxNegParam)..MaxFtParam

InitFt ==
    /\ fn = "none"
    /\ pc = "ready"
    /\ psd = NoValue
    /\ noise_n_neighborfreqs = 0
    /\ noise_skip_neighborfreqs = 0
    /\ snrs = NoValue
    /\ freqs = <<>>
    /\ stim_freq = 0
    /\ ret = NoReturn
    /\ obj = NoObject

\* FtSpectra(frequency_bins, psd, ch_names, stim_freq) with the bins
\* 1, 2, ... Hz, stim_freq = 1 Hz and the default montage
Construct ==
    /\ ~obj.constructed
    /\ \E a \in FtArrays, nf \in 0..MaxFtElems, nch \in 0..MaxFtElems :
          LET e == integrity_check(a.shape, StdAxis(nf), ChNames(nch))
          IN  /\ obj' = IF e = "" THEN new_FtSpectra(StdAxis(nf), a, ChNames(nch), Hz(1))
                        ELSE obj
              /\ ret' = IF e = "" THEN Return(NoValue) ELSE Raise(e)
    /\ fn' = "__init__"
    /\ pc' = "done"
    /\ UNCHANGED <<psd, noise_n_neighborfreqs, noise_skip_neighborfreqs,
                   snrs, freqs, stim_freq>>

AddSnrSpectrum ==
    /\ obj.constructed
    /\ \E n \in FtParams, s \in FtParams :
          /\ ret' = add_snr_spectrum(obj, n, s)
          /\ obj' = after_add_snr_spectrum(obj, n, s)
    /\ fn' = "add_snr_spectrum"
    /\ pc' = "done"
    /\ UNCHANGED <<psd, noise_n_neighborfreqs, noise_skip_neighborfreqs,
                   snrs, freqs, stim_freq>>

PlotSnrSpectrum ==
    /\ obj.constructed
    /\ ret' \in plot_snr_spectrum(obj)
    /\ fn' = "plot_snr_spectrum"
    /\ pc' = "done"
    /\ UNCHANGED <<psd, noise_n_neighborfreqs, noise_skip_neighborfreqs,
                   snrs, freqs, stim_freq, obj>>

PlotPsdSpectrum ==
    /\ obj.constructed
    /\ ret' \in ExternalOutcomes
    /\ fn' = "plot_psd_spectrum"
    /\ pc' = "done"
    /\ UNCHANGED <<psd, noise_n_neighborfreqs, noise_skip_neighborfreqs,
                   snrs, freqs, stim_freq, obj>>

PlotSnrTopography ==
    /\ obj.constructed
    /\ ret' \in plot_snr_topography(obj)
    /\ fn' = "plot_snr_topography"
    /\ pc' = "done"
    /\ UNCHANGED <<psd, noise_n_neighborfreqs, noise_skip_neighborfreqs,
                   snrs, freqs, stim_freq, obj>>

NextFt ==
    \/ Construct
    \/ AddSnrSpectrum
    \/ PlotSnrSpectrum
    \/ PlotPsdSpectrum
    \/ PlotSnrTopography

SpecFt == InitFt /\ [][NextFt]_vars

----------------------------------------------------------------------------
(* Reading an array by trial, channel and frequency bin (all 0-based);    *)
(* a rank-2 array has the single trial 0                                   *)

LastAxis(a) == a.shape[Len(a.shape)]
Channels(a) == a.shape[Len(a.shape) - 1]
Trials(a) == IF Len(a.shape) = 3 THEN a.shape[1] ELSE 1
Elem(a, t, c, i) == a.data[(t * Channels(a) + c) * LastAxis(a) + i + 1]

SnrDone == fn = "snr_spectrum" /\ pc = "done"
\* a call within the contract: a PSD of rank 2 or 3 (n, s >= 0 throughout)
ValidSnrCall == SnrDone /\ Rank(psd) \in {2, 3}
Margin == noise_n_neighborfreqs + noise_skip_neighborfreqs
\* the bins with enough neighbours on both sides
Defined(i) == Margin <= i /\ i < LastAxis(psd) - Margin

\* C1: for a PSD of rank 2 or 3 and n, s >= 0, snr_spectrum raises nothing
\* and its output is NaN at every bin i < n+s or i >= F-(n+s), for every
\* trial and channel; when F <= 2*(n+s) every bin of the output is NaN.
C1_EdgeBinsAreNaN ==
    ValidSnrCall =>
        /\ ret.kind = "return"
        /\ Len(ret.value.data) = Size(psd.shape)
        /\ \A t \in 0..(Trials(psd) - 1), c \in 0..(Channels(psd) - 1),
              i \in 0..(LastAxis(psd) - 1) :
              ~Defined(i) => Elem(ret.value, t, c, i) = NaN
        /\ LastAxis(psd) <= 2 * Margin =>
              \A p \in 1..Size(psd.shape) : ret.value.data[p] = NaN

\* a 5-bin spectrum with n = s = 1: bins 0, 1, 3, 4 are NaN, bin 2 is not
C1_Witness ==
    /\ ValidSnrCall
    /\ noise_n_neighborfreqs = 1 /\ noise_skip_neighborfreqs = 1
    /\ psd.shape = <<1, 5>>
    /\ ret.kind = "return"
    /\ Elem(ret.value, 0, 0, 1) = NaN /\ Elem(ret.value, 0, 0, 3) = NaN
    /\ Elem(ret.value, 0, 0, 2) = Fin(2)

\* the sum of a[t, c, j] over the set J of bins
RECURSIVE SumOver(_, _, _, _)
SumOver(a, t, c, J) ==
    IF J = {} THEN Fin(0)
    ELSE LET j == CHOOSE x \in J : TRUE
         IN  Add(Elem(a, t, c, j), SumOver(a, t, c, J \ {j}))

NoiseBins(i) ==
    ((i + noise_skip_neighborfreqs + 1)..(i + Margin))
    \cup ((i - Margin)..(i - noise_skip_neighborfreqs - 1))

\* C2: at every defined bin i the output at (trial, channel, i) is
\* psd[trial, channel, i] over the arithmetic mean of psd[trial, channel, j]
\* for the 2n distinct bins j of {i+s+1..i+s+n} and {i-s-n..i-s-1}, which are
\* the bins the code gathers; each lies in [0, F-1] and further than s from i.
C2_SnrIsSignalOverNoiseMean ==
    ValidSnrCall =>
        /\ ret.kind = "return"
        /\ \A t \in 0..(Trials(psd) - 1), c \in 0..(Channels(psd) - 1),
              i \in 0..(LastAxis(psd) - 1) :
              Defined(i) =>
                LET J == NoiseBins(i)
                    idx == i_noise(i, noise_n_neighborfreqs, noise_skip_neighborfreqs)
                IN  /\ Cardinality(J) = 2 * noise_n_neighborfreqs
                    /\ Len(idx) = 2 * noise_n_neighborfreqs
                    /\ {idx[k] : k \in 1..Len(idx)} = J
                    /\ \A j \in J : /\ 0 <= j /\ j <= LastAxis(psd) - 1
                                    /\ Abs(j - i) > noise_skip_neighborfreqs
                    /\ Elem(ret.value, t, c, i) =
                          Div(Elem(psd, t, c, i),
                              Div(SumOver(psd, t, c, J),
                                  Fin(2 * noise_n_neighborfreqs)))

\* two channels of three bins, n = 1, s = 0: 2 / mean(1, 0) = 4 in the
\* second channel, whatever the first channel holds
C2_Witness ==
    /\ ValidSnrCall
    /\ noise_n_neighborfreqs = 1 /\ noise_skip_neighborfreqs = 0
    /\ psd.shape = <<2, 3>>
    /\ Elem(psd, 0, 1, 0) = Fin(1) /\ Elem(psd, 0, 1, 1) = Fin(2)
    /\ Elem(psd, 0, 1, 2) = Fin(0)
    /\ Elem(psd, 0, 0, 0) = Fin(2)
    /\ ret.kind = "return"
    /\ Elem(ret.value, 0, 1, 1) = Fin(4)

\* every element of a is the float v
IsConstant(a, v) == \A p \in 1..Len(a.data) : a.data[p] = v

\* every defined bin of the output is 1.0
DefinedBinsAreOne ==
    /\ ret.kind = "return"
    /\ \A t \in 0..(Trials(psd) - 1), c \in 0..(Channels(psd) - 1),
          i \in 0..(LastAxis(psd) - 1) :
          Defined(i) => Elem(ret.value, t, c, i) = Fin(1)

\* C3 as stated: for a PSD whose entries all equal v, and every n, s >= 0,
\* every defined bin of the output is exactly 1.0.
C3_ConstantPsdGivesOne_AsStated ==
    (ValidSnrCall /\ \E v \in PsdValues : IsConstant(psd, v))
        => DefinedBinsAreOne

\* C3 amended: for a PSD whose entries all equal a finite v # 0, and every
\* n >= 1 and s >= 0, every defined bin of the output is 1.0; with n = 0
\* (no noise bin) or v = 0 (0/0) the defined bins are NaN.
C3_ConstantPsdGivesOne ==
    /\ (ValidSnrCall /\ noise_n_neighborfreqs >= 1
        /\ \E v \in PsdValues \ {Fin(0)} : IsConstant(psd, v))
           => DefinedBinsAreOne
    /\ (ValidSnrCall /\ \E v \in PsdValues : IsConstant(psd, v)
        /\ (noise_n_neighborfreqs = 0 \/ IsConstant(psd, Fin(0))))
           => /\ ret.kind = "return"
              /\ \A p \in 1..Size(psd.shape) : ret.value.data[p] = NaN

\* six bins all 2, n = 2, s = 0: bins 2 and 3 are defined and are 1
C3_Witness ==
    /\ ValidSnrCall
    /\ noise_n_neighborfreqs = 2 /\ noise_skip_neighborfreqs = 0
    /\ psd.shape = <<1, 6>>
    /\ IsConstant(psd, Fin(2))
    /\ ret.kind = "return"
    /\ Elem(ret.value, 0, 0, 2) = Fin(1) /\ Elem(ret.value, 0, 0, 3) = Fin(1)

\* C4: for a PSD of rank 2 or 3 the call returns an array of the shape of
\* the PSD, with every element written, and the caller's PSD keeps its shape.
C4_ShapeIsPreserved ==
    [][(CallSnrSpectrum /\ Rank(psd) \in {2, 3}) =>
          /\ ret'.kind = "return"
          /\ ret'.value.shape = psd.shape
          /\ Len(ret'.value.data) = Size(psd.shape)
          /\ \A p \in 1..Size(psd.shape) : ret'.value.data[p] # Uninit
          /\ psd'.shape = psd.shape]_vars

\* a rank-2 PSD of 2 channels and 3 bins gives a rank-2 result of that shape
C4_Witness ==
    /\ ValidSnrCall
    /\ psd.shape = <<2, 3>>
    /\ ret.kind = "return"
    /\ ret.value.shape = <<2, 3>>

\* C5: a rank-2 PSD and the same data as a rank-3 PSD with one trial give
\* the same output once the trial axis is removed: NaN in the same bins,
\* the same value in every other bin.
C5_Rank2AgreesWithOneTrial ==
    (SnrDone /\ Rank(psd) = 2) =>
        LET one_trial == [shape |-> <<1>> \o psd.shape, data |-> psd.data]
            r3 == snr_spectrum(one_trial, noise_n_neighborfreqs,
                               noise_skip_neighborfreqs)
        IN  /\ ret.kind = "return"
            /\ r3.kind = "return"
            /\ r3.value.shape = <<1>> \o psd.shape
            /\ ret.value.shape = Tail(r3.value.shape)
            /\ \A p \in 1..Size(psd.shape) : ret.value.data[p] = r3.value.data[p]

\* a rank-2 PSD whose output has a NaN bin and a bin that is neither NaN nor 1
C5_Witness ==
    /\ SnrDone
    /\ psd.shape = <<1, 4>>
    /\ noise_n_neighborfreqs = 1 /\ noise_skip_neighborfreqs = 0
    /\ ret.kind = "return"
    /\ ret.value.shape = <<1, 4>>
    /\ ret.value.data[1] = NaN
    /\ ret.value.data[2] = Norm(1, 2)

----------------------------------------------------------------------------
SelDone == fn = "snr_at_frequency" /\ pc = "done"

Dist(k) == Abs(freqs[k + 1] - stim_freq)

\* the lowest 0-based index of a bin at the least distance from the target
NearestBin ==
    CHOOSE k \in 0..(Len(freqs) - 1) :
        /\ \A j \in 0..(Len(freqs) - 1) : Dist(k) <= Dist(j)
        /\ \A j \in 0..(k - 1) : Dist(j) > Dist(k)

\* C6: for a non-empty frequency axis the selected index minimises
\* |freqs[k] - target| and is the lowest such index (freqs 1,2,3,4 Hz and
\* target 2.5 Hz: index 1; freqs 1..5 Hz and target 3.1 Hz: index 2); for an
\* SNR array of rank 2 or 3 the value returned is the slice at that index
\* of the last axis.
C6_NearestBinLowestIndex ==
    (SelDone /\ Len(freqs) > 0) =>
        /\ i_signal(freqs, stim_freq) = NearestBin
        /\ (freqs = <<10, 20, 30, 40>> /\ stim_freq = 25)
              => i_signal(freqs, stim_freq) = 1
        /\ (freqs = <<10, 20, 30, 40, 50>> /\ stim_freq = 31)
              => i_signal(freqs, stim_freq) = 2
        /\ (Rank(snrs) \in {2, 3} /\ NearestBin < LastAxis(snrs))
              => ret.kind = "return"
        /\ (Rank(snrs) \in {2, 3} /\ ret.kind = "return") =>
              /\ ret.value.shape = SubSeq(snrs.shape, 1, Rank(snrs) - 1)
              /\ Len(ret.value.data) * LastAxis(snrs) = Len(snrs.data)
              /\ \A p \in 1..Len(snrs.data) :
                    (p - 1) % LastAxis(snrs) = NearestBin =>
                        ret.value.data[((p - 1) \div LastAxis(snrs)) + 1]
                            = snrs.data[p]

\* freqs 1,2,3,4 Hz and target 2.5 Hz on a 1 x 4 array: the slice at index 1
C6_Witness ==
    /\ SelDone
    /\ freqs = <<10, 20, 30, 40>> /\ stim_freq = 25
    /\ snrs.shape = <<1, 4>>
    /\ ret.kind = "return"
    /\ ret.value.shape = <<1>>
    /\ ret.value.data = <<snrs.data[2]>>

\* C7 as stated: the result has the rank of the SNR array minus one for a
\* rank-2 or rank-3 array, and rank 0 for a rank-1 array.
C7_ResultRank_AsStated ==
    (SelDone /\ ret.kind = "return") =>
        /\ Rank(snrs) \in {2, 3} => Rank(ret.value) = Rank(snrs) - 1
        /\ Rank(snrs) = 1 => Rank(ret.value) = 0

\* C7 amended: the result has the rank of the SNR array minus one for a
\* rank-2 or rank-3 array; a rank-1 array is returned as it is, at rank 1,
\* for every non-empty frequency axis.
C7_ResultRank ==
    /\ (SelDone /\ ret.kind = "return" /\ Rank(snrs) \in {2, 3})
          => Rank(ret.value) = Rank(snrs) - 1
    /\ (SelDone /\ Rank(snrs) = 1 /\ Len(freqs) > 0)
          => ret = Return(snrs)

\* a rank-1 array of 3 elements comes back whole
C7_Witness ==
    /\ SelDone
    /\ snrs.shape = <<3>>
    /\ Len(freqs) = 3
    /\ ret.kind = "return"
    /\ Rank(ret.value) = 1
    /\ ret.value = snrs

\* C8: both routines raise on an array of unsupported rank: snr_at_frequency
\* on every rank outside {1,2,3}, snr_spectrum on every rank outside {2,3}.
C8_UnsupportedRankRaises ==
    /\ (SelDone /\ Rank(snrs) \notin {1, 2, 3}) => ret.kind = "raise"
    /\ (SnrDone /\ Rank(psd) \notin {2, 3}) => ret.kind = "raise"

\* C9: snr_at_frequency raises whenever the last axis of a rank-2 or rank-3
\* SNR array and the frequency axis differ in length.
C9_LengthMismatchRaises ==
    (SelDone /\ Rank(snrs) \in {2, 3} /\ LastAxis(snrs) # Len(freqs))
        => ret.kind = "raise"

----------------------------------------------------------------------------
\* the state of the container the claim describes
C10_Inv ==
    /\ obj.constructed =>
          /\ Rank(obj.psd) >= 2
          /\ LastAxis(obj.psd) = Len(obj.frequency_bins)
          /\ Channels(obj.psd) = Len(obj.ch_names)
    /\ ~obj.snr_is_None =>
          /\ obj.constructed
          /\ \E n \in FtParams, s \in FtParams :
                snr_spectrum(obj.psd, n, s) = Return(obj.snr)
    /\ (fn = "__init__" /\ ret.kind = "raise") => ~obj.constructed
    /\ (fn = "plot_snr_spectrum" /\ obj.snr_is_None) => ret.exc = "Warning"

\* snr is set by a call of add_snr_spectrum that returns, by nothing else,
\* and no call changes the PSD, the frequency bins or the channel names
C10_Step ==
    /\ (obj.snr_is_None /\ ~obj'.snr_is_None)
          => (fn' = "add_snr_spectrum" /\ ret'.kind = "return")
    /\ obj.constructed =>
          /\ obj'.psd = obj.psd
          /\ obj'.frequency_bins = obj.frequency_bins
          /\ obj'.ch_names = obj.ch_names

\* C10: after any sequence of FtSpectra operations snr is None or the result
\* of snr_spectrum on a PSD whose last axis has len(frequency_bins) bins and
\* whose second-to-last axis has len(ch_names) channels: a mismatched
\* construction raises and leaves no instance, snr is None until a call of
\* add_snr_spectrum returns, and plot_snr_spectrum raises while snr is None.
C10_SnrIsNoneOrOfCheckedPsd == [](C10_Inv) /\ [][C10_Step]_vars

\* an instance over 1 trial x 1 channel x 3 bins whose snr was computed
\* and then plotted
C10_Witness ==
    /\ obj.constructed
    /\ obj.psd.shape = <<1, 1, 3>>
    /\ ~obj.snr_is_None
    /\ obj.snr.shape = <<1, 1, 3>>
    /\ obj.snr.data[2] # NaN
    /\ fn = "plot_snr_spectrum"
    /\ ret.kind = "return"

====
